---- MODULE Spec2Model ----
(***************************************************************************)
(* Scheduling and calendar-synchronisation subsystem of the voice lead     *)
(* capture server: the Account Store (google_accounts), the Appointment    *)
(* Store (appointments), the calendar gateway with its token refresh, and  *)
(* the two voice functions getAvailableSlots and bookAppointment, run as   *)
(* concurrent requests of one Node.js process.                             *)
(*                                                                         *)
(* Time is the business-local wall clock in minutes, minute 0 being a      *)
(* Monday 00:00; no daylight-saving transition falls inside the modelled   *)
(* window.  Token expiries are in seconds, as in the token_expiry column.  *)
(* A request runs atomically from one network await to the next: the       *)
(* database calls (better-sqlite3) are synchronous.                        *)
(***************************************************************************)
EXTENDS Integers, Sequences, FiniteSets, TLC

\* ------------------------------------------------------------------ bounds
MaxCalls == 2          \* voice function calls started in one behaviour
MaxTokens == 4         \* tokens the provider issues in one behaviour
MaxTicks == 1          \* advances of the wall clock
MaxSearchDays == 8     \* iterations of the weekday search that are followed

\* ------------------------------------------------------- program constants
appointmentDuration == 60      \* APPOINTMENT_DURATION_MINUTES default
businessHoursStart == 540      \* BUSINESS_HOURS_START default 09:00
businessHoursEnd == 1020       \* BUSINESS_HOURS_END default 17:00
businessDays == {1, 2, 3, 4, 5}
RefreshMarginSeconds == 300    \* account.tokenExpiry < now + 300
MinLeadMinutes == 60           \* DateTime.now().plus({ hours: 1 })
RevalidationMarginMinutes == 1 \* start.minus({ minutes: 1 }), end.plus({ minutes: 1 })
MaxVoiceSlots == 5             \* slots.slice(0, 5)
DefaultDaysAhead == 7          \* parameters?.daysAhead || 7
MinutesPerDay == 1440
SecondsPerMinute == 60

\* ------------------------------------------------------ environment values
Emails == {"a@x", "b@x"}       \* Google identities that can be connected
TokenLifetimeSeconds == 3600   \* lifetime the provider grants a new access token
InitialNow == 480              \* Monday 08:00
TickMinutes == 65              \* minutes the clock advances in one step
StartTimes == {600, 630, 660}  \* Monday 10:00, 10:30, 11:00 as chosen start instants
SystemZones == {0, 300}       \* server in the business zone, or in UTC (winter)
Calls == 1 .. MaxCalls
NoId == 0

VARIABLES
  accounts,      \* rows of google_accounts
  nextAccountId, \* AUTOINCREMENT counter of google_accounts
  appointments,  \* rows of appointments
  events,        \* the provider's calendars: events with their calendar (owner email)
  issued,        \* the provider's count of tokens issued so far
  now,           \* wall clock, minutes
  removing,      \* removeAccount requests awaiting revokeToken
  systemZone,    \* minutes the server's system zone is ahead of the business zone
  activated,     \* the stored id of the last setActiveAccount, until the next
                 \* connect or delete (NoId otherwise)
  trial,         \* the last call of a function of time-slots.js made on its
                 \* own: its arguments and what it returned
  req            \* the voice function calls: position, locals, result, calls made

vars == <<accounts, nextAccountId, appointments, events, issued, now, removing,
          systemZone, activated, trial, req>>

\* ------------------------------------------------------------ Account Store
ActiveRows(rows) == {a \in rows : a.isActive}

MinId(rows) == CHOOSE a \in rows : \A b \in rows : a.id <= b.id

\* SELECT * FROM google_accounts WHERE is_active = 1 LIMIT 1: SQLite scans in
\* rowid order, so of several active rows the one with the least id is returned.
\* The result is the set holding that row, or the empty set for null.
getActiveAccount(rows) ==
  IF ActiveRows(rows) = {} THEN {} ELSE {MinId(ActiveRows(rows))}

getAccountByEmail(rows, email) == {a \in rows : a.email = email}

getAccountById(rows, id) == {a \in rows : a.id = id}

\* INSERT ... ON CONFLICT(email) DO UPDATE: a new row takes all values and the
\* is_active it is given; an existing row keeps its id and is_active.
upsertAccount(rows, id, account) ==
  IF getAccountByEmail(rows, account.email) = {}
  THEN rows \cup {[id |-> id, email |-> account.email,
                   accessToken |-> account.accessToken,
                   refreshToken |-> account.refreshToken,
                   tokenExpiry |-> account.tokenExpiry,
                   isActive |-> account.isActive]}
  ELSE {IF a.email = account.email
        THEN [a EXCEPT !.accessToken = account.accessToken,
                       !.refreshToken = IF account.refreshToken = NoId
                                        THEN a.refreshToken
                                        ELSE account.refreshToken,
                       !.tokenExpiry = account.tokenExpiry]
        ELSE a : a \in rows}

\* The mutant of setActiveAccount: the transaction commits after its first
\* statement, the store is seen with every account deactivated.
setActiveAccountDeactivated(rows, id) ==
  {[a EXCEPT !.isActive = FALSE] : a \in rows}

\* The mutant of setActiveAccount: the deactivate-all statement is left out.
setActiveAccountNoDeactivate(rows, id) ==
  {IF a.id = id THEN [a EXCEPT !.isActive = TRUE] ELSE a : a \in rows}

\* One transaction: UPDATE ... SET is_active = 0; UPDATE ... SET is_active = 1 WHERE id = ?
setActiveAccount(rows, id) ==
  {[a EXCEPT !.isActive = (a.id = id)] : a \in rows}

\* The mutant of updateTokens: the refresh token is stored as given, without
\* COALESCE.
updateTokensNoCoalesce(rows, email, tokens) ==
  {IF a.email = email
   THEN [a EXCEPT !.accessToken = tokens.accessToken,
                  !.refreshToken = tokens.refreshToken,
                  !.tokenExpiry = tokens.tokenExpiry]
   ELSE a : a \in rows}

\* UPDATE ... SET access_token, refresh_token = COALESCE(new, old), token_expiry WHERE email = ?
updateTokens(rows, email, tokens) ==
  {IF a.email = email
   THEN [a EXCEPT !.accessToken = tokens.accessToken,
                  !.refreshToken = IF tokens.refreshToken = NoId
                                   THEN a.refreshToken
                                   ELSE tokens.refreshToken,
                  !.tokenExpiry = tokens.tokenExpiry]
   ELSE a : a \in rows}

\* DELETE FROM google_accounts WHERE id = ?
deleteAccount(rows, id) == {a \in rows : a.id # id}

\* ------------------------------------------------------------- time helpers
DayOf(t) == t \div MinutesPerDay

startOfDay(t) == DayOf(t) * MinutesPerDay

\* Luxon weekday: 1 = Monday ... 7 = Sunday; day 0 is a Monday.
Weekday(day) == (day % 7) + 1

\* The mutant of Overlaps: intervals that touch count as overlapping.
OverlapsClosed(aStart, aEnd, bStart, bEnd) == aStart <= bEnd /\ aEnd >= bStart

\* slotStart < busy.end && slotEnd > busy.start
Overlaps(aStart, aEnd, bStart, bEnd) == aStart < bEnd /\ aEnd > bStart

\* ------------------------------------------------------------ Slot Generator
\* config.calendar as generateTimeSlots reads it: minutes of a slot, opening and
\* closing minute of the day, Luxon weekday numbers.
Config(duration, open, close, days) ==
  [appointmentDuration |-> duration, businessHoursStart |-> open,
   businessHoursEnd |-> close, businessDays |-> days]

DefaultConfig ==
  Config(appointmentDuration, businessHoursStart, businessHoursEnd, businessDays)

\* The mutant of SlotsIn: while (slotStart.plus(duration) < dayEnd).
SlotsInStrict(config) ==
  IF config.businessHoursEnd <= config.businessHoursStart THEN 0
  ELSE (config.businessHoursEnd - config.businessHoursStart - 1)
         \div config.appointmentDuration

\* Iterations of while (slotStart.plus({ minutes: appointmentDuration }) <= dayEnd)
\* on one day.
SlotsIn(config) ==
  IF config.businessHoursEnd < config.businessHoursStart THEN 0
  ELSE (config.businessHoursEnd - config.businessHoursStart)
         \div config.appointmentDuration

SlotsPerDay == SlotsIn(DefaultConfig)

\* The i-th candidate of the two nested while loops, in the order they visit it.
Candidate(config, firstDay, i) ==
  LET day == firstDay + ((i - 1) \div SlotsIn(config))
      k == (i - 1) % SlotsIn(config)
      slotStart == day * MinutesPerDay + config.businessHoursStart
                   + k * config.appointmentDuration
  IN [startTime |-> slotStart, endTime |-> slotStart + config.appointmentDuration]

CandidateSlot(firstDay, i) == Candidate(DefaultConfig, firstDay, i)

\* The mutant of inTheFuture: slotStart >= DateTime.now().
inTheFutureNoLead(slot, clock) == slot.startTime >= clock

\* slotStart >= minStartTime, minStartTime being now plus one hour
inTheFuture(slot, clock) == slot.startTime >= clock + MinLeadMinutes

\* The mutant of isAvailable: only a busy period that starts inside the slot
\* makes it unavailable.
isAvailableStartInside(slot, busyPeriods) ==
  ~ \E busy \in busyPeriods :
      slot.startTime <= busy.start /\ busy.start < slot.endTime

\* !busyIntervals.some(busy => slotStart < busy.end && slotEnd > busy.start)
isAvailable(slot, busyPeriods) ==
  ~ \E busy \in busyPeriods :
      Overlaps(slot.startTime, slot.endTime, busy.start, busy.end)

\* generateTimeSlots(startDate, endDate, busyPeriods) under a configuration,
\* with clock the value of DateTime.now() during the call.
generateTimeSlotsFor(config, startDate, endDate, busyPeriods, clock) ==
  LET firstDay == DayOf(startDate)
      lastDay == DayOf(endDate)
      nDays == IF lastDay < firstDay THEN 0 ELSE lastDay - firstDay + 1
      candidates == [i \in 1 .. (nDays * SlotsIn(config)) |->
                       Candidate(config, firstDay, i)]
      keep(slot) ==
        /\ Weekday(DayOf(slot.startTime)) \in config.businessDays
        /\ inTheFuture(slot, clock)
        /\ isAvailable(slot, busyPeriods)
  IN SelectSeq(candidates, keep)

\* generateTimeSlots under the configuration of the deployment.
generateTimeSlots(startDate, endDate, busyPeriods, clock) ==
  generateTimeSlotsFor(DefaultConfig, startDate, endDate, busyPeriods, clock)

\* dt.hour of DateTime.fromISO(slot.startTime): no zone is given, so the hour is
\* read in the system zone of the server, zone minutes ahead of the business zone.
HourOf(t, zone) == ((t + zone) % MinutesPerDay) \div 60

filterByTimeOfDay(slots, timeOfDay, zone) ==
  IF timeOfDay = "any" THEN slots
  ELSE LET keep(slot) ==
             LET hour == HourOf(slot.startTime, zone)
             IN CASE timeOfDay = "morning" -> hour >= 6 /\ hour < 12
                  [] timeOfDay = "afternoon" -> hour >= 12 /\ hour < 17
                  [] timeOfDay = "evening" -> hour >= 17 /\ hour < 21
                  [] OTHER -> TRUE
       IN SelectSeq(slots, keep)

\* DateTime.fromISO(slot.startTime).toFormat('yyyy-MM-dd') === dateStr; a date
\* string is modelled by its day number.
filterByDate(slots, dateStr, zone) ==
  LET keep(slot) == DayOf(slot.startTime + zone) = dateStr
  IN SelectSeq(slots, keep)

\* ------------------------------------------------------ Natural-Date Resolver
\* A phrase is modelled by what parseNaturalDate reads of it: whether it is
\* empty, its lower-cased trimmed text when that is one of the three literals,
\* the weekday names it contains, whether it contains "next", and the day it
\* denotes when it parses as yyyy-MM-dd (NoDate otherwise).
NoDate == -1

Phrase(literal, weekdays, hasNext, date) ==
  [literal |-> literal, weekdays |-> weekdays, hasNext |-> hasNext, date |-> date]

NoPhrase == Phrase("", {}, FALSE, NoDate)

\* What the weekday search returns if it has not ended after MaxSearchDays
\* iterations.
Diverged == -2

\* The mutant of nextOccurrence: the loop ends on the first day of the target
\* weekday, the day of the clock included.
RECURSIVE nextOccurrenceFromToday(_, _, _, _)
nextOccurrenceFromToday(date, today, targetDay, steps) ==
  IF steps > MaxSearchDays THEN Diverged
  ELSE IF Weekday(date) # targetDay
       THEN nextOccurrenceFromToday(date + 1, today, targetDay, steps + 1)
       ELSE date

\* while (date.weekday !== targetDay || date.hasSame(now, 'day'))
\*   date = date.plus({ days: 1 });
RECURSIVE nextOccurrence(_, _, _, _)
nextOccurrence(date, today, targetDay, steps) ==
  IF steps > MaxSearchDays THEN Diverged
  ELSE IF Weekday(date) # targetDay \/ date = today
       THEN nextOccurrence(date + 1, today, targetDay, steps + 1)
       ELSE date

\* parseNaturalDate with local the wall clock that `now` shows.
resolveDate(input, local) ==
  LET today == DayOf(local)
  IN IF input = NoPhrase THEN NoDate
     ELSE IF input.literal = "today" THEN today
     ELSE IF input.literal = "tomorrow" THEN today + 1
     ELSE IF input.literal = "day after tomorrow" THEN today + 2
     ELSE IF input.weekdays # {}
     THEN LET targetDay == CHOOSE w \in input.weekdays : \A v \in input.weekdays : w <= v
              date == nextOccurrence(today, today, targetDay, 0)
          IN IF date = Diverged THEN Diverged
             ELSE IF input.hasNext THEN date + 7 ELSE date
     ELSE input.date

\* The mutant of parseNaturalDate: now = DateTime.now(), in the system zone.
parseNaturalDateSystemZone(input, clock) == resolveDate(input, clock + systemZone)

\* parseNaturalDate(input), with clock the value of DateTime.now(): now is
\* DateTime.now().setZone(timezone), the wall clock of the business.
parseNaturalDate(input, clock) == resolveDate(input, clock)

\* No function of time-slots.js has been called on its own.  A call records its
\* arguments (given is the slot list passed to a filter) and its result; a call
\* of parseNaturalDate also keeps the call of parseNaturalDate before it
\* (earlier).
NoSlots == <<>>

NoTrial ==
  [fn |-> "none", config |-> DefaultConfig, startDate |-> 0, endDate |-> 0,
   busyPeriods |-> {}, clock |-> 0, given |-> NoSlots, dateStr |-> 0,
   timeOfDay |-> "any", slots |-> NoSlots, totalAvailable |-> 0, zone |-> 0,
   phrase |-> NoPhrase, date |-> NoDate,
   earlier |-> [valid |-> FALSE, phrase |-> NoPhrase, clock |-> 0, zone |-> 0,
                date |-> NoDate]]

\* ------------------------------------------------ results of the voice functions
ErrMissing == "Missing required information for booking."
ErrNoCalendarSlots == "No calendar connected. Please ask the business to set up their calendar."
ErrNoCalendarBook == "No calendar connected. Please have someone call you back to schedule."
ErrInvalidTime == "Invalid appointment time. Please try again."
ErrSlotTaken == "Sorry, that time slot was just taken."
ErrSlotsTrouble == "I had trouble checking the calendar."
ErrBookTrouble == "I had trouble booking that appointment."
ErrSlotsHandler == "Failed to check calendar availability."
ErrBookHandler == "Failed to book appointment."

\* A result object; structured is FALSE only for the body of a response that
\* carries no result at all.
Result(success, error, shouldRetry, slots, totalAvailable, appointmentId, eventId) ==
  [structured |-> TRUE, success |-> success, error |-> error,
   shouldRetry |-> shouldRetry, slots |-> slots, totalAvailable |-> totalAvailable,
   appointmentId |-> appointmentId, eventId |-> eventId]

Failure(error) == Result(FALSE, error, FALSE, <<>>, 0, 0, 0)

NoResult == [Failure("Internal server error") EXCEPT !.structured = FALSE]

NoResponse == [status |-> 0, result |-> NoResult]

\* What a call of a service function gives its caller: a value, or an exception.
Returned(value) == [thrown |-> FALSE, value |-> value]

Thrown == [thrown |-> TRUE, value |-> NoResult]

\* The mutant of handleFunctionCall: the case has no try/catch of its own, so an
\* exception reaches the handler's outer catch, which answers 500.
handleFunctionCallOuterCatch(fn, ret) ==
  IF ret.thrown
  THEN [status |-> 500, result |-> NoResult]
  ELSE [status |-> 200, result |-> ret.value]

\* case 'getAvailableSlots' / case 'bookAppointment' of handleFunctionCall.
handleFunctionCall(fn, ret) ==
  IF ret.thrown
  THEN [status |-> 200,
        result |-> Failure(IF fn = "getAvailableSlots"
                           THEN ErrSlotsHandler ELSE ErrBookHandler)]
  ELSE [status |-> 200, result |-> ret.value]

\* The function call ends: the response is sent.
Finish(q, ret) ==
  [q EXCEPT !.pc = "done", !.response = handleFunctionCall(q.fn, ret),
            !.account = "", !.activeAccount = "", !.startDate = 0, !.endDate = 0,
            !.timeMin = 0, !.timeMax = 0]

\* catch (error) of getAvailableSlots
getAvailableSlotsCatch == Returned(Failure(ErrSlotsTrouble))

\* catch (error) of bookAppointment
bookAppointmentCatch == Returned(Failure(ErrBookTrouble))

ServiceCatch(q) ==
  IF q.fn = "getAvailableSlots" THEN getAvailableSlotsCatch ELSE bookAppointmentCatch

\* ------------------------------------------------------------ Calendar Gateway
TheRow(rowSet) == CHOOSE a \in rowSet : TRUE

\* The mutant of NeedsRefresh: only an expired token is refreshed.
NeedsRefreshExpiredOnly(account, clock) ==
  account.tokenExpiry < clock * SecondsPerMinute

\* const now = Math.floor(Date.now() / 1000); account.tokenExpiry < now + 300
NeedsRefresh(account, clock) ==
  account.tokenExpiry < clock * SecondsPerMinute + RefreshMarginSeconds

\* The provider's answer to freebusy.query for one calendar: the intervals of the
\* events of that calendar that intersect [timeMin, timeMax).
FreeBusy(calendar, timeMin, timeMax) ==
  {[start |-> e.start, end |-> e.end] :
     e \in {e \in events : /\ e.calendar = calendar
                           /\ Overlaps(e.start, e.end, timeMin, timeMax)}}

\* Of the account object a request holds, only the email is read after the
\* refresh decision; the requests keep that.
NoEmail == ""

NoCalls == [refresh |-> 0, freebusy |-> 0, insert |-> 0]

Called(q, what) == [q EXCEPT !.calls[what] = @ + 1]

\* What a request records of its last getAuthenticatedClient(account): the
\* clock (seconds) and the stored expiry when the token was examined, whether a
\* refresh was started, and the expiry of the credential the client was
\* returned with (NoId while none was returned).
NoClient == [asked |-> FALSE, at |-> 0, expiry |-> 0, refresh |-> FALSE,
             credential |-> NoId]

ClientFor(account, clock) ==
  [asked |-> TRUE, at |-> clock * SecondsPerMinute, expiry |-> account.tokenExpiry,
   refresh |-> NeedsRefresh(account, clock),
   credential |-> IF NeedsRefresh(account, clock) THEN NoId ELSE account.tokenExpiry]

\* getCalendarClient(account) followed by the API call named by pending: the
\* request awaits the refresh when the token is inside the margin, the API call
\* otherwise.
getCalendarClient(q, account, refreshing, pending, what) ==
  IF NeedsRefresh(account, now)
  THEN [Called(q, "refresh") EXCEPT !.pc = refreshing, !.account = account.email,
                                    !.client = ClientFor(account, now)]
  ELSE [Called(q, what) EXCEPT !.pc = pending, !.account = account.email,
                               !.client = ClientFor(account, now)]

\* createCalendarEvent up to its first await: the active account is read again.
createCalendarEvent(q) ==
  LET account == getActiveAccount(accounts)
  IN IF account = {}
     THEN Finish(q, bookAppointmentCatch)
     ELSE getCalendarClient(q, TheRow(account), "eventRefresh", "insert", "insert")

\* The mutant of hasConflict: only a busy period that contains the whole
\* appointment counts.
hasConflictContainment(start, end, busyPeriods) ==
  \E period \in busyPeriods : period.start <= start /\ end <= period.end

\* The mutant of hasConflict: a busy period that touches the appointment counts.
hasConflictTouching(start, end, busyPeriods) ==
  \E period \in busyPeriods : start <= period.end /\ end >= period.start

\* busyPeriods.some(period => start < busyEnd && end > busyStart)
hasConflict(start, end, busyPeriods) ==
  \E period \in busyPeriods : start < period.end /\ end > period.start

Min(a, b) == IF a < b THEN a ELSE b

\* The mutant of keepIfAny: the filtered list always replaces the list.
keepAlways(filtered, slots) == filtered

\* if (filtered.length > 0) { slots = filtered; }
keepIfAny(filtered, slots) == IF Len(filtered) > 0 THEN filtered ELSE slots

\* The mutant of slice: the whole list is returned.
sliceWhole(list, begin, end) == list

\* list.slice(begin, end) for 0 <= begin <= end.
slice(list, begin, end) == SubSeq(list, begin + 1, Min(end, Len(list)))

\* getAvailableSlots from the await of getBusyPeriods to its return.
SlotsResult(q, busyPeriods) ==
  LET generated == generateTimeSlots(q.startDate, q.endDate, busyPeriods, now)
      preferredDate == q.params.preferredDate
      parsedDate == parseNaturalDate(preferredDate, now)
      dateSlots == filterByDate(generated, parsedDate, systemZone)
      byDate == IF preferredDate # NoPhrase /\ parsedDate # NoDate
                THEN keepIfAny(dateSlots, generated) ELSE generated
      filteredSlots == filterByTimeOfDay(byDate, q.params.timeOfDay, systemZone)
      slots == IF q.params.timeOfDay # "any"
               THEN keepIfAny(filteredSlots, byDate) ELSE byDate
      limitedSlots == slice(slots, 0, MaxVoiceSlots)
  IN Result(TRUE, "", FALSE, limitedSlots, Len(slots), 0, 0)

\* The mutant of slotTaken: the result does not ask the caller to search again.
slotTakenNoRetry == Failure(ErrSlotTaken)

\* if (hasConflict) return { success: false, error, shouldRetry: true }
slotTaken == Result(FALSE, ErrSlotTaken, TRUE, <<>>, 0, 0, 0)

\* The caller's code after await getBusyPeriods(...) has returned busyPeriods.
AfterBusy(q, busyPeriods) ==
  IF q.fn = "getAvailableSlots"
  THEN Finish(q, Returned(SlotsResult(q, busyPeriods)))
  ELSE IF hasConflict(q.start, q.end, busyPeriods)
       THEN Finish(q, Returned(slotTaken))
       ELSE createCalendarEvent(q)

\* catch (error) of getBusyPeriods: throw new Error('Failed to check calendar
\* availability'), which the calling function catches.
getBusyPeriodsCatch(q) == Finish(q, ServiceCatch(q))

\* getBusyPeriods(startDate, endDate) up to its first await.
getBusyPeriods(q, startDate, endDate) ==
  LET account == getActiveAccount(accounts)
      asked == [q EXCEPT !.timeMin = startDate, !.timeMax = endDate]
  IN IF account = {}
     THEN AfterBusy(asked, {})
     ELSE getCalendarClient(asked, TheRow(account), "busyRefresh", "freebusy", "freebusy")

\* --------------------------------------------------------- Booking Orchestrator
Fields == {"customerName", "phoneNumber", "address", "issue"}

\* A startTime parameter: absent (or empty), or a string that is or is not an
\* ISO instant; t is the instant DateTime.fromISO reads from a valid one.
StartTime(given, valid, t) == [given |-> given, valid |-> valid, t |-> t]

NoStartTime == StartTime(FALSE, FALSE, 0)

Params(startTime, missing, preferredDate, timeOfDay, daysAhead) ==
  [startTime |-> startTime, missing |-> missing, preferredDate |-> preferredDate,
   timeOfDay |-> timeOfDay, daysAhead |-> daysAhead]

NoParams == Params(NoStartTime, {}, NoPhrase, "any", 0)

\* A request: its position (pc), the function and its parameters, the locals
\* that live across an await, and the response.  The other fields record what
\* happened, for the properties: hadActive (an account was active when the call
\* arrived), answered, queried, busyPeriods, seenEvents (the free/busy query
\* obtained the busy list, of which calendar, what it was, when the provider
\* held how many events), created (the id of the event the call created, 0 for
\* none), client (the last token decision) and calls (the provider calls made).
IdleRequest ==
  [pc |-> "idle", fn |-> "none", params |-> NoParams,
   activeAccount |-> NoEmail, account |-> NoEmail,
   startDate |-> 0, endDate |-> 0, start |-> 0, end |-> 0,
   timeMin |-> 0, timeMax |-> 0,
   hadActive |-> FALSE, answered |-> FALSE, queried |-> NoEmail,
   busyPeriods |-> {}, seenEvents |-> 0, created |-> 0,
   client |-> NoClient, calls |-> NoCalls, response |-> NoResponse]

EmailOf(rowSet) == IF rowSet = {} THEN NoEmail ELSE TheRow(rowSet).email

\* The mutant of noActiveAccount: the check of the active account is left out.
noActiveAccountUnchecked(activeAccount) == FALSE

\* if (!activeAccount)
noActiveAccount(activeAccount) == activeAccount = {}

\* The mutant of missingRequired: the address is not checked.
missingRequiredButAddress(params) ==
  \/ ~ params.startTime.given
  \/ "customerName" \in params.missing
  \/ "phoneNumber" \in params.missing
  \/ "issue" \in params.missing

\* !startTime || !customerName || !phoneNumber || !address || !issue
missingRequired(params) ==
  \/ ~ params.startTime.given
  \/ "customerName" \in params.missing
  \/ "phoneNumber" \in params.missing
  \/ "address" \in params.missing
  \/ "issue" \in params.missing

\* getAvailableSlots up to its first await.  storeOk is FALSE when the read of
\* the active account before the try block throws.
getAvailableSlots(q, storeOk) ==
  IF ~ storeOk THEN Finish(q, Thrown)
  ELSE LET activeAccount == getActiveAccount(accounts)
       IN IF noActiveAccount(activeAccount)
          THEN Finish(q, Returned(Failure(ErrNoCalendarSlots)))
          ELSE LET daysAhead == IF q.params.daysAhead = 0 THEN DefaultDaysAhead
                                ELSE q.params.daysAhead
                   startDate == now
                   endDate == startOfDay(now + daysAhead * MinutesPerDay)
                              + MinutesPerDay - 1
               IN getBusyPeriods([q EXCEPT !.activeAccount = EmailOf(activeAccount),
                                           !.startDate = startDate,
                                           !.endDate = endDate],
                                 startDate, endDate)

\* bookAppointment up to its first await.
bookAppointment(q, storeOk) ==
  IF missingRequired(q.params) THEN Finish(q, Returned(Failure(ErrMissing)))
  ELSE IF ~ storeOk THEN Finish(q, Thrown)
  ELSE LET activeAccount == getActiveAccount(accounts)
       IN IF noActiveAccount(activeAccount)
          THEN Finish(q, Returned(Failure(ErrNoCalendarBook)))
          ELSE IF ~ q.params.startTime.valid
          THEN Finish(q, Returned(Failure(ErrInvalidTime)))
          ELSE LET start == q.params.startTime.t
                   end == start + appointmentDuration
               IN getBusyPeriods([q EXCEPT !.activeAccount = EmailOf(activeAccount),
                                           !.start = start, !.end = end],
                                 start - RevalidationMarginMinutes,
                                 end + RevalidationMarginMinutes)

\* The appointments row saveAppointment inserts.
AppointmentRow(q, r, eventId) ==
  [id |-> Cardinality(appointments) + 1,
   googleEventId |-> eventId,
   startTime |-> q.start * SecondsPerMinute,
   endTime |-> q.end * SecondsPerMinute,
   accountEmail |-> q.activeAccount,
   callId |-> r]

\* The mutant of createAppointment: the INSERT has run when the function throws.
createAppointmentThenThrow(rows, row, saved) == rows \cup {row}

\* createAppointment(appointment) (saveAppointment in the service): the rows of
\* appointments after the INSERT ... RETURNING has run (saved), or has thrown.
createAppointment(rows, row, saved) == IF saved THEN rows \cup {row} ELSE rows

\* ------------------------------------------------------------------- inputs
SlotParams ==
  {Params(NoStartTime, {}, NoPhrase, "any", 0),
   Params(NoStartTime, {}, Phrase("tomorrow", {}, FALSE, NoDate), "afternoon", 1)}

\* Everything given (a valid or an invalid start time), or exactly one required
\* parameter missing.
BookParams ==
  {Params(StartTime(TRUE, TRUE, t), {}, NoPhrase, "any", 0) : t \in StartTimes}
  \cup {Params(StartTime(TRUE, FALSE, 0), {}, NoPhrase, "any", 0)}
  \cup {Params(NoStartTime, {}, NoPhrase, "any", 0)}
  \cup {Params(StartTime(TRUE, TRUE, t), {f}, NoPhrase, "any", 0) :
          t \in {600}, f \in Fields}

\* -------------------------------------------------------------------- state
\* The server starts with an empty database; the calendars of the identities
\* exist at the provider before they are connected and may hold an event.
InitialCalendars ==
  {{}, {[id |-> 1, calendar |-> "a@x", start |-> 600, end |-> 660]}}

InitStore ==
  /\ accounts = {}
  /\ nextAccountId = 1
  /\ appointments = {}
  /\ issued = 0
  /\ now = InitialNow
  /\ removing = {}
  /\ activated = NoId
  /\ trial = NoTrial
  /\ req = [r \in Calls |-> IdleRequest]

Init ==
  /\ InitStore
  /\ events \in InitialCalendars
  /\ systemZone \in SystemZones

InitConcurrent ==
  /\ InitStore
  /\ events = {}
  /\ systemZone = 0

FirstIdle(r) == req[r].pc = "idle" /\ \A k \in Calls : k < r => req[k].pc # "idle"


\* The wall clock advances.
Tick ==
  /\ now + TickMinutes <= InitialNow + MaxTicks * TickMinutes
  /\ now' = now + TickMinutes
  /\ UNCHANGED <<activated, trial>>
  /\ UNCHANGED <<accounts, nextAccountId, appointments, events, issued, removing,
                 systemZone, req>>

\* isActive: !existingAccount
makeActive(existingAccount) == existingAccount = {}

\* handleCallback after exchangeCodeForTokens and getUserEmail have answered for
\* the identity email (a callback that ends at one of its error redirects
\* changes nothing).
handleCallback(email) ==
  /\ issued + 2 <= MaxTokens
  /\ LET existingAccount == getAccountByEmail(accounts, email)
         account == [email |-> email,
                     accessToken |-> issued + 1,
                     refreshToken |-> issued + 2,
                     tokenExpiry |-> now * SecondsPerMinute + TokenLifetimeSeconds,
                     isActive |-> makeActive(existingAccount)]
     IN /\ accounts' = upsertAccount(accounts, nextAccountId, account)
        /\ nextAccountId' = IF existingAccount = {} THEN nextAccountId + 1
                            ELSE nextAccountId
        /\ issued' = issued + 2
  /\ activated' = NoId
  /\ UNCHANGED <<appointments, events, now, removing, systemZone, trial, req>>

\* activateAccount for a numeric id, stored or not.
activateAccount(id) ==
  /\ accounts' = setActiveAccount(accounts, id)
  /\ activated' = IF getAccountById(accounts, id) # {} THEN id ELSE NoId
  /\ UNCHANGED <<nextAccountId, appointments, events, issued, now, removing,
                 systemZone, trial, req>>

\* removeAccount up to await revokeToken(account.accessToken), for a stored id.
removeAccountStart(id) ==
  /\ getAccountById(accounts, id) # {}
  /\ id \notin removing
  /\ removing' = removing \cup {id}
  /\ UNCHANGED <<activated, trial>>
  /\ UNCHANGED <<accounts, nextAccountId, appointments, events, issued, now,
                 systemZone, req>>

\* The mutant of revokeTokenThrows: a failed revocation reaches removeAccount's
\* outer catch.
revokeTokenThrowsOnFailure(revoked) == ~ revoked

\* Whether await revokeToken(account.accessToken) throws in removeAccount:
\* revokeToken catches the provider's error, and so does removeAccount.
revokeTokenThrows(revoked) == FALSE

\* removeAccount after the provider answered the revocation (revoked is FALSE
\* when it failed): the row is deleted, unless an exception took the handler to
\* its outer catch.
removeAccountFinish(id, revoked) ==
  /\ id \in removing
  /\ removing' = removing \ {id}
  /\ accounts' = IF revokeTokenThrows(revoked) THEN accounts
                 ELSE deleteAccount(accounts, id)
  /\ activated' = NoId
  /\ UNCHANGED <<nextAccountId, appointments, events, issued, now, systemZone,
                 trial, req>>

\* A function-call webhook arrives and runs up to its first await.
StartCall(r, fn, params, storeOk) ==
  /\ FirstIdle(r)
  /\ LET q == [IdleRequest EXCEPT !.fn = fn, !.params = params,
                                  !.hadActive = (ActiveRows(accounts) # {})]
     IN req' = [req EXCEPT ![r] = IF fn = "getAvailableSlots"
                                  THEN getAvailableSlots(q, storeOk)
                                  ELSE bookAppointment(q, storeOk)]
  /\ UNCHANGED <<activated, trial>>
  /\ UNCHANGED <<accounts, nextAccountId, appointments, events, issued, now,
                 removing, systemZone>>

\* oauth2Client.refreshAccessToken() answers.  On success updateTokens stores the
\* new credentials (the refresh token only if the provider rotated it) and the
\* API call is made; on failure getAuthenticatedClient throws.
RefreshResponse(r, ok, rotated) ==
  LET q == req[r]
      n == IF rotated THEN 2 ELSE 1
  IN /\ q.pc \in {"busyRefresh", "eventRefresh"}
     /\ IF ok
        THEN LET tokens == [accessToken |-> issued + 1,
                            refreshToken |-> IF rotated THEN issued + 2 ELSE NoId,
                            tokenExpiry |-> now * SecondsPerMinute + TokenLifetimeSeconds]
                 what == IF q.pc = "busyRefresh" THEN "freebusy" ELSE "insert"
             IN /\ issued + n <= MaxTokens
                /\ accounts' = updateTokens(accounts, q.account, tokens)
                /\ issued' = issued + n
                /\ req' = [req EXCEPT ![r] =
                             [Called(q, what) EXCEPT
                                !.pc = what,
                                !.client.credential = tokens.tokenExpiry]]
        ELSE /\ req' = [req EXCEPT ![r] = IF q.pc = "busyRefresh"
                                          THEN getBusyPeriodsCatch(q)
                                          ELSE Finish(q, bookAppointmentCatch)]
             /\ UNCHANGED <<accounts, issued>>
     /\ UNCHANGED <<activated, trial>>
     /\ UNCHANGED <<nextAccountId, appointments, events, now, removing, systemZone>>

\* response.data.calendars[calendarId]?.busy || []: the busy list of the reply's
\* entry for the calendar, the empty list when the reply holds no such list.
busyOrEmpty(entry, busy) == IF entry THEN busy ELSE {}

\* calendar.freebusy.query answers, or fails (ok is FALSE); the reply holds the
\* busy list of the calendar, or holds none because the provider could not
\* compute it (entry is FALSE).
FreeBusyResponse(r, ok, entry) ==
  LET q == req[r]
  IN /\ q.pc = "freebusy"
     /\ IF ok
        THEN LET busyPeriods ==
                   busyOrEmpty(entry, FreeBusy(q.account, q.timeMin, q.timeMax))
                 got == IF entry
                        THEN [q EXCEPT !.answered = TRUE, !.queried = q.account,
                                       !.busyPeriods = busyPeriods,
                                       !.seenEvents = Cardinality(events)]
                        ELSE q
             IN req' = [req EXCEPT ![r] = AfterBusy(got, busyPeriods)]
        ELSE req' = [req EXCEPT ![r] = getBusyPeriodsCatch(q)]
     /\ UNCHANGED <<activated, trial>>
     /\ UNCHANGED <<accounts, nextAccountId, appointments, events, issued, now,
                    removing, systemZone>>

\* calendar.events.insert answers, or fails; after a created event saveAppointment
\* writes the row, or throws (saved is FALSE).
InsertResponse(r, ok, saved) ==
  LET q == req[r]
      eventId == Cardinality(events) + 1
      row == AppointmentRow(q, r, eventId)
  IN /\ q.pc = "insert"
     /\ IF ok
        THEN /\ events' = events \cup {[id |-> eventId, calendar |-> q.account,
                                        start |-> q.start, end |-> q.end]}
             /\ appointments' = createAppointment(appointments, row, saved)
             /\ IF saved
                THEN /\ req' = [req EXCEPT ![r] =
                                  Finish([q EXCEPT !.created = eventId],
                                         Returned(Result(TRUE, "", FALSE, <<>>, 0,
                                                         row.id, eventId)))]
                ELSE /\ req' = [req EXCEPT ![r] =
                                  Finish([q EXCEPT !.created = eventId],
                                         bookAppointmentCatch)]
        ELSE /\ req' = [req EXCEPT ![r] = Finish(q, bookAppointmentCatch)]
             /\ UNCHANGED <<events, appointments>>
     /\ UNCHANGED <<activated, trial>>
     /\ UNCHANGED <<accounts, nextAccountId, issued, now, removing, systemZone>>

\* What happens around the function calls: the clock, the OAuth callback and the
\* administrator's requests.
Environment ==
  \/ Tick
  \/ \E email \in Emails : handleCallback(email)
  \/ \E id \in 1 .. nextAccountId : activateAccount(id)
  \/ \E id \in 1 .. nextAccountId : removeAccountStart(id)
  \/ \E id \in 1 .. nextAccountId, revoked \in BOOLEAN : removeAccountFinish(id, revoked)

Responses ==
  \/ \E r \in Calls, ok \in BOOLEAN, rotated \in BOOLEAN : RefreshResponse(r, ok, rotated)
  \/ \E r \in Calls, ok \in BOOLEAN, entry \in BOOLEAN : FreeBusyResponse(r, ok, entry)
  \/ \E r \in Calls, ok \in BOOLEAN, saved \in BOOLEAN : InsertResponse(r, ok, saved)

\* One function call, with every input, while the environment moves.
Next ==
  \/ Environment
  \/ \E params \in SlotParams, storeOk \in BOOLEAN :
       StartCall(1, "getAvailableSlots", params, storeOk)
  \/ \E params \in BookParams, storeOk \in BOOLEAN :
       StartCall(1, "bookAppointment", params, storeOk)
  \/ Responses

Spec == Init /\ [][Next]_vars

\* MaxCalls bookings in flight at once, each with well-formed parameters.
ConcurrentStartTimes == {600, 630}

ConcurrentBookParams ==
  {Params(StartTime(TRUE, TRUE, t), {}, NoPhrase, "any", 0) :
     t \in ConcurrentStartTimes}

NextConcurrent ==
  \/ Environment
  \/ \E r \in Calls, params \in ConcurrentBookParams :
       StartCall(r, "bookAppointment", params, TRUE)
  \/ Responses

SpecConcurrent == InitConcurrent /\ [][NextConcurrent]_vars

\* Token refresh examined at the margin: a@x (active) and b@x are connected, the
\* stored expiry of a@x lies TokenAge seconds after the clock; one function call
\* runs.  Tokens issued before the behaviour starts are numbered below 1.
TokenAges == {-60, 240, 299, 300, 600}

InitToken ==
  /\ \E age \in TokenAges :
       accounts = {[id |-> 1, email |-> "a@x", accessToken |-> -1,
                    refreshToken |-> -2,
                    tokenExpiry |-> InitialNow * SecondsPerMinute + age,
                    isActive |-> TRUE],
                   [id |-> 2, email |-> "b@x", accessToken |-> -3,
                    refreshToken |-> -4,
                    tokenExpiry |-> InitialNow * SecondsPerMinute + TokenLifetimeSeconds,
                    isActive |-> FALSE]}
  /\ nextAccountId = 3
  /\ appointments = {}
  /\ issued = 0
  /\ now = InitialNow
  /\ removing = {}
  /\ activated = NoId
  /\ trial = NoTrial
  /\ req = [r \in Calls |-> IdleRequest]
  /\ events \in InitialCalendars
  /\ systemZone = 0

NextToken ==
  \/ \E params \in SlotParams, storeOk \in BOOLEAN :
       StartCall(1, "getAvailableSlots", params, storeOk)
  \/ \E params \in BookParams, storeOk \in BOOLEAN :
       StartCall(1, "bookAppointment", params, storeOk)
  \/ Responses

SpecToken == InitToken /\ [][NextToken]_vars

\* A slot search followed by the booking of one of the slots it returned, on a
\* calendar that nothing else changes: a@x is connected and active, its token
\* fresh or four minutes from expiry.  Calendars of a@x: empty; Monday
\* 11:00-12:00, which touches the 10:00 and the 12:00 slot; Monday 10:00-11:00
\* and 13:30-14:30; 12:00-12:01, inside the margin of the 11:00 slot's query.
OfferCalendars ==
  {{},
   {[id |-> 1, calendar |-> "a@x", start |-> 660, end |-> 720]},
   {[id |-> 1, calendar |-> "a@x", start |-> 600, end |-> 660],
    [id |-> 2, calendar |-> "a@x", start |-> 810, end |-> 870]},
   {[id |-> 1, calendar |-> "a@x", start |-> 720, end |-> 721]}}

OfferTokenAges == {240, TokenLifetimeSeconds}

InitOffer ==
  /\ \E age \in OfferTokenAges :
       accounts = {[id |-> 1, email |-> "a@x", accessToken |-> -1,
                    refreshToken |-> -2,
                    tokenExpiry |-> InitialNow * SecondsPerMinute + age,
                    isActive |-> TRUE]}
  /\ nextAccountId = 2
  /\ appointments = {}
  /\ issued = 0
  /\ now = InitialNow
  /\ removing = {}
  /\ activated = NoId
  /\ trial = NoTrial
  /\ req = [r \in Calls |-> IdleRequest]
  /\ events \in OfferCalendars
  /\ systemZone \in SystemZones

\* The caller books the i-th slot that the slot search of call 1 returned.
BookOffered(i) ==
  /\ req[1].pc = "done"
  /\ req[1].response.result.success
  /\ i <= Len(req[1].response.result.slots)
  /\ StartCall(2, "bookAppointment",
               Params(StartTime(TRUE, TRUE, req[1].response.result.slots[i].startTime),
                      {}, NoPhrase, "any", 0),
               TRUE)

NextOffer ==
  \/ \E params \in SlotParams : StartCall(1, "getAvailableSlots", params, TRUE)
  \/ \E i \in 1 .. MaxVoiceSlots : BookOffered(i)
  \/ Responses

SpecOffer == InitOffer /\ [][NextOffer]_vars

\* ------------------------------------------ the functions of time-slots.js
\* The functions of time-slots.js called on their own, with arguments drawn
\* from small sets, at a clock and in a system zone chosen at the start.
\* Configurations: the defaults; 90-minute slots, which leave a 30-minute
\* window before closing; a Tuesday-and-Saturday business open 10:00-12:30.
Configs ==
  {DefaultConfig,
   Config(90, businessHoursStart, businessHoursEnd, businessDays),
   Config(appointmentDuration, 600, 750, {2, 6})}

\* Clocks: Monday 08:00, 09:30 and 23:20, Friday 15:30, Saturday 08:00.
TrialClocks == {480, 570, 1400, 6690, 7680}

\* Days the range extends beyond the day of the clock.
TrialDaysAhead == {0, 1, 3}

\* Busy lists over Monday and Tuesday: 10:00-11:00 exactly one default slot,
\* 10:30-11:15 across two, Tuesday 11:00-12:00, a period that ends before it
\* starts.
TrialBusyLists ==
  {{},
   {[start |-> 600, end |-> 660]},
   {[start |-> 630, end |-> 675]},
   {[start |-> 600, end |-> 660], [start |-> 2100, end |-> 2160]},
   {[start |-> 700, end |-> 650]}}

InitTrial ==
  /\ accounts = {}
  /\ nextAccountId = 1
  /\ appointments = {}
  /\ issued = 0
  /\ removing = {}
  /\ activated = NoId
  /\ trial = NoTrial
  /\ req = [r \in Calls |-> IdleRequest]
  /\ events = {}
  /\ systemZone \in SystemZones
  /\ now \in TrialClocks

\* generateTimeSlots(startDate, endDate, busyPeriods) is called.
Generate(config, daysAhead, busyPeriods) ==
  /\ trial.fn = "none"
  /\ LET startDate == now
         endDate == startOfDay(now + daysAhead * MinutesPerDay) + MinutesPerDay - 1
     IN trial' = [NoTrial EXCEPT
                    !.fn = "generateTimeSlots", !.config = config,
                    !.startDate = startDate, !.endDate = endDate,
                    !.busyPeriods = busyPeriods, !.clock = now,
                    !.slots = generateTimeSlotsFor(config, startDate, endDate,
                                                   busyPeriods, now)]
  /\ UNCHANGED <<accounts, nextAccountId, appointments, events, issued, now,
                 removing, systemZone, activated, req>>

\* Dates asked for: the day of the clock and the three days after it.
TrialDates == 0 .. 3

TimesOfDay == {"any", "morning", "afternoon", "evening"}

\* filterByDate(slots, dateStr) is called on the list just generated.
FilterByDate(offset) ==
  /\ trial.fn = "generateTimeSlots"
  /\ trial' = [trial EXCEPT
                 !.fn = "filterByDate", !.given = trial.slots,
                 !.dateStr = DayOf(now) + offset,
                 !.slots = filterByDate(trial.slots, DayOf(now) + offset, systemZone)]
  /\ UNCHANGED <<accounts, nextAccountId, appointments, events, issued, now,
                 removing, systemZone, activated, req>>

\* filterByTimeOfDay(slots, timeOfDay) is called on the list just generated.
FilterByTimeOfDay(timeOfDay) ==
  /\ trial.fn = "generateTimeSlots"
  /\ trial' = [trial EXCEPT
                 !.fn = "filterByTimeOfDay", !.given = trial.slots,
                 !.timeOfDay = timeOfDay,
                 !.slots = filterByTimeOfDay(trial.slots, timeOfDay, systemZone)]
  /\ UNCHANGED <<accounts, nextAccountId, appointments, events, issued, now,
                 removing, systemZone, activated, req>>

\* Preferences of a slot search: no date, tomorrow, a Sunday, a date.
TrialPhrases ==
  {NoPhrase,
   Phrase("tomorrow", {}, FALSE, NoDate),
   Phrase("", {7}, FALSE, NoDate),
   Phrase("", {}, FALSE, 1)}

\* The part of getAvailableSlots that follows getBusyPeriods runs on a busy
\* list: generateTimeSlots, the two filters, slice.
Select(preferredDate, timeOfDay, daysAhead, busyPeriods) ==
  /\ trial.fn = "none"
  /\ LET startDate == now
         endDate == startOfDay(now + daysAhead * MinutesPerDay) + MinutesPerDay - 1
         q == [IdleRequest EXCEPT
                 !.fn = "getAvailableSlots",
                 !.params = Params(NoStartTime, {}, preferredDate, timeOfDay, daysAhead),
                 !.startDate = startDate, !.endDate = endDate]
         result == SlotsResult(q, busyPeriods)
     IN trial' = [NoTrial EXCEPT
                    !.fn = "getAvailableSlots",
                    !.startDate = startDate, !.endDate = endDate,
                    !.busyPeriods = busyPeriods, !.clock = now,
                    !.given = generateTimeSlots(startDate, endDate, busyPeriods, now),
                    !.dateStr = parseNaturalDate(preferredDate, now),
                    !.timeOfDay = timeOfDay,
                    !.slots = result.slots,
                    !.totalAvailable = result.totalAvailable]
  /\ UNCHANGED <<accounts, nextAccountId, appointments, events, issued, now,
                 removing, systemZone, activated, req>>

\* Phrases: the three literals, every weekday name with and without "next",
\* two weekday names, a date, no phrase.
ResolvePhrases ==
  {Phrase(l, {}, FALSE, NoDate) : l \in {"today", "tomorrow", "day after tomorrow"}}
  \cup {Phrase("", {w}, n, NoDate) : w \in 1 .. 7, n \in BOOLEAN}
  \cup {Phrase("", {2, 5}, FALSE, NoDate), Phrase("", {}, FALSE, 1), NoPhrase}

\* parseNaturalDate(input) is called, for the first or the second time.
Resolve(input) ==
  /\ trial.fn \in {"none", "parseNaturalDate"}
  /\ ~ trial.earlier.valid
  /\ trial' = [NoTrial EXCEPT
                 !.fn = "parseNaturalDate", !.clock = now, !.phrase = input,
                 !.date = parseNaturalDate(input, now),
                 !.earlier = IF trial.fn = "none" THEN NoTrial.earlier
                             ELSE [valid |-> TRUE, phrase |-> trial.phrase,
                                   clock |-> trial.clock, zone |-> trial.zone,
                                   date |-> trial.date],
                 !.zone = systemZone]
  /\ UNCHANGED <<accounts, nextAccountId, appointments, events, issued, now,
                 removing, systemZone, activated, req>>

\* Between two calls of parseNaturalDate the server is restarted under another
\* system zone (TZ).
Relocate(zone) ==
  /\ trial.fn = "parseNaturalDate"
  /\ ~ trial.earlier.valid
  /\ zone # systemZone
  /\ systemZone' = zone
  /\ UNCHANGED <<accounts, nextAccountId, appointments, events, issued, now,
                 removing, activated, trial, req>>

NextTrial ==
  \/ \E input \in ResolvePhrases : Resolve(input)
  \/ \E zone \in SystemZones : Relocate(zone)
  \/ \E config \in Configs, daysAhead \in TrialDaysAhead,
        busyPeriods \in TrialBusyLists : Generate(config, daysAhead, busyPeriods)
  \/ \E offset \in TrialDates : FilterByDate(offset)
  \/ \E timeOfDay \in TimesOfDay : FilterByTimeOfDay(timeOfDay)
  \/ \E preferredDate \in TrialPhrases, timeOfDay \in TimesOfDay,
        daysAhead \in TrialDaysAhead, busyPeriods \in TrialBusyLists :
       Select(preferredDate, timeOfDay, daysAhead, busyPeriods)

SpecTrial == InitTrial /\ [][NextTrial]_vars

\* ================================================================ properties
Done(r) == req[r].pc = "done"

Booking(r) == req[r].fn = "bookAppointment"

ResultOf(r) == req[r].response.result

RowsOfCall(r) == {a \in appointments : a.callId = r}

EventOf(r) == CHOOSE e \in events : e.id = req[r].created

\* C1: at most one account has the active flag set, in every reachable state of
\* the Account Store.
AtMostOneActive == Cardinality(ActiveRows(accounts)) <= 1

\* C2: after setActiveAccount(id) has returned for a stored id, exactly one
\* account is active and it is that account, whatever the store held before.
ActivateMakesOnlyIdActive ==
  activated # NoId =>
    /\ Cardinality(ActiveRows(accounts)) = 1
    /\ \A a \in ActiveRows(accounts) : a.id = activated

\* C2 witness: an older account is stored and inactive while a younger one is
\* active, which only a switch of the active account produces.
SwitchedToYounger ==
  /\ activated # NoId
  /\ \E a, b \in accounts : a.id < b.id /\ ~ a.isActive /\ b.id = activated

\* C3 as stated: of two concurrent bookings whose requested intervals overlap
\* and whose re-validation queried the same calendar, at most one creates an
\* event in that calendar.
AtMostOneConcurrentBookingCreates ==
  \A r1, r2 \in Calls :
    (/\ r1 # r2
     /\ req[r1].created # 0 /\ req[r2].created # 0
     /\ req[r1].queried = req[r2].queried
     /\ EventOf(r1).calendar = req[r1].queried
     /\ EventOf(r2).calendar = req[r2].queried)
      => ~ Overlaps(EventOf(r1).start, EventOf(r1).end,
                    EventOf(r2).start, EventOf(r2).end)

\* The events the provider held in the queried calendar when the re-validation
\* query of call r was answered (event ids count up in creation order).
SeenBy(r) ==
  {e \in events : e.id <= req[r].seenEvents /\ e.calendar = req[r].queried}

\* C3: a booking whose re-validation query is answered when the queried calendar
\* already holds an overlapping event creates no event and returns
\* SlotNoLongerAvailable with shouldRetry.
LateValidationLoses ==
  \A r \in Calls :
    (/\ Booking(r) /\ req[r].answered
     /\ \E e \in SeenBy(r) : Overlaps(req[r].start, req[r].end, e.start, e.end))
      => /\ Done(r)
         /\ req[r].created = 0
         /\ ~ ResultOf(r).success
         /\ ResultOf(r).shouldRetry
         /\ ResultOf(r).error = ErrSlotTaken

\* C3 witness: one booking created an event, and another, validating the same
\* calendar after that, was told the slot is no longer available.
OneWinsOneLoses ==
  \E r1, r2 \in Calls :
    /\ r1 # r2
    /\ req[r1].created # 0
    /\ EventOf(r1) \in SeenBy(r2)
    /\ Overlaps(req[r2].start, req[r2].end, EventOf(r1).start, EventOf(r1).end)
    /\ Done(r2) /\ ResultOf(r2).error = ErrSlotTaken

\* A busy period of the re-validation answer of call r overlaps its interval.
AnsweredOverlap(r) ==
  /\ Booking(r) /\ req[r].answered
  /\ \E b \in req[r].busyPeriods :
       req[r].start < b.end /\ req[r].end > b.start

\* C4: when the re-validation answer holds a busy period overlapping
\* [start, end), bookAppointment returns success false with shouldRetry true,
\* calls events.insert never and writes no appointment row.
ConflictMeansRetryAndNothingCreated ==
  \A r \in Calls :
    AnsweredOverlap(r)
      => /\ Done(r)
         /\ ResultOf(r) = Result(FALSE, ErrSlotTaken, TRUE, <<>>, 0, 0, 0)
         /\ req[r].calls.insert = 0
         /\ RowsOfCall(r) = {}

\* C4 witness: a finished booking whose answer held a busy period that overlaps
\* the requested interval without containing it.
ConflictSeen ==
  \E r \in Calls :
    /\ Done(r) /\ AnsweredOverlap(r)
    /\ \E b \in req[r].busyPeriods : req[r].start < b.end /\ b.end < req[r].end

\* C5 as stated: a booking that returned success created exactly one event,
\* and an appointment row holds that event's id, the account in whose calendar
\* the event is, and endTime - startTime equal to the configured duration.
SuccessMeansOneEventOneRecord ==
  \A r \in Calls :
    (Done(r) /\ Booking(r) /\ ResultOf(r).success)
      => /\ req[r].calls.insert = 1
         /\ req[r].created # 0
         /\ ResultOf(r).eventId = req[r].created
         /\ \E a \in RowsOfCall(r) :
              /\ a.googleEventId = req[r].created
              /\ a.accountEmail = EventOf(r).calendar
              /\ a.endTime - a.startTime = appointmentDuration * SecondsPerMinute
              /\ ResultOf(r).appointmentId = a.id

\* C6 as stated: when events.insert succeeded and saveAppointment failed, the
\* result differs from the failure returned when nothing was created.
PartialCommitIsDistinct ==
  \A r \in Calls :
    (Done(r) /\ Booking(r) /\ req[r].created # 0 /\ RowsOfCall(r) = {})
      => ResultOf(r) # Failure(ErrBookTrouble)

\* C7: a bookAppointment call with a required field missing (startTime,
\* customerName, phoneNumber, address or issue) returns success false before
\* any provider call, creating no event and no appointment row.
MissingFieldRejectedBeforeAnyCall ==
  \A r \in Calls :
    (/\ Booking(r)
     /\ \/ ~ req[r].params.startTime.given
        \/ req[r].params.missing # {})
      => /\ Done(r)
         /\ ~ ResultOf(r).success
         /\ req[r].calls = NoCalls
         /\ req[r].created = 0
         /\ RowsOfCall(r) = {}

\* C7 witness: a booking without an address was rejected while an account was
\* active, so that the call would otherwise have gone to the provider.
MissingAddressRejected ==
  \E r \in Calls :
    /\ Done(r) /\ Booking(r)
    /\ req[r].params.missing = {"address"}
    /\ req[r].hadActive
    /\ ResultOf(r).error = ErrMissing

\* C8: a call that arrives while no account is active returns success false,
\* with no slots, and makes no provider call; a booking creates nothing.
NoActiveAccountShortCircuits ==
  \A r \in Calls :
    (req[r].fn # "none" /\ ~ req[r].hadActive)
      => /\ Done(r)
         /\ ~ ResultOf(r).success
         /\ ResultOf(r).slots = <<>>
         /\ req[r].calls = NoCalls
         /\ req[r].created = 0
         /\ RowsOfCall(r) = {}

\* C8 witness: both functions were answered with their no-calendar fallback on
\* a store that holds an account, none of them active.
NoCalendarFallbackGiven ==
  \E r \in Calls :
    /\ Done(r) /\ ~ req[r].hadActive
    /\ accounts # {}
    /\ ResultOf(r).error \in {ErrNoCalendarSlots, ErrNoCalendarBook}

\* C9: every finished getAvailableSlots or bookAppointment call answered with
\* status 200 and a structured result carrying a success flag; no exception
\* crossed the function-call boundary.
AlwaysStructuredResult ==
  \A r \in Calls :
    Done(r) => /\ req[r].response.status = 200
               /\ ResultOf(r).structured
               /\ ResultOf(r).success \in BOOLEAN

\* C9 witness: a call in which an exception left the service function and
\* reached the handler's catch around it was answered.
ExceptionTurnedIntoResult ==
  \E r \in Calls :
    /\ Done(r)
    /\ ResultOf(r).error \in {ErrSlotsHandler, ErrBookHandler}

\* Call r asked the provider (a refresh or the free/busy query itself) and
\* obtained no busy list: the call failed, or the reply held none.
QueryFailed(r) ==
  /\ Done(r)
  /\ req[r].calls.refresh + req[r].calls.freebusy > 0
  /\ ~ req[r].answered

\* C10 as stated: a free/busy query that obtains no answer is not taken for an
\* empty busy list: the booking creates no event and no row, the slot search
\* returns success false with no slots.
FailedQueryIsNotEmptyList ==
  \A r \in Calls :
    QueryFailed(r)
      => /\ ~ ResultOf(r).success
         /\ ResultOf(r).slots = <<>>
         /\ req[r].calls.insert = 0
         /\ req[r].created = 0
         /\ RowsOfCall(r) = {}

\* C11: the token is refreshed exactly when the stored expiry is less than 300 s
\* after the clock (so at 240 s it is, at 600 s it is not and the stored token
\* is the credential), and a credential returned expires 300 s or more after
\* the clock of the decision.
RefreshExactlyInsideMargin ==
  \A r \in Calls :
    LET c == req[r].client
    IN c.asked =>
         /\ c.refresh <=> (c.expiry < c.at + 300)
         /\ (c.expiry = c.at + 240) => c.refresh
         /\ (c.expiry = c.at + 600) => (~ c.refresh /\ c.credential = c.expiry)
         /\ (req[r].calls.refresh = 0) => ~ c.refresh
         /\ (c.credential # NoId) => c.credential >= c.at + 300

\* C11 witness: a token 240 s from expiry was refreshed and the client returned
\* with the new credential.
FourMinuteTokenRefreshed ==
  \E r \in Calls :
    LET c == req[r].client
    IN /\ c.asked /\ c.expiry = c.at + 240
       /\ c.refresh /\ c.credential >= c.at + 300
       /\ req[r].calls.freebusy = 1

\* The last token decision of call r started a refresh and the refresh failed.
RefreshFailed(r) ==
  /\ Done(r)
  /\ req[r].client.asked /\ req[r].client.refresh
  /\ req[r].client.credential = NoId

\* C12 as stated: a failed refresh is not tried again within the operation (no
\* provider call follows it) and the caller of the scheduling function gets a
\* failure other than the one a calendar-unavailable fault gives.
RefreshFailureAsksReconnect ==
  \A r \in Calls :
    RefreshFailed(r)
      => /\ ~ ResultOf(r).success
         /\ req[r].calls.refresh <= 2
         /\ req[r].created = 0
         /\ ResultOf(r).error \notin {ErrSlotsTrouble, ErrBookTrouble}

\* C13: a step in which the refresh of call r succeeds leaves, in the row of the
\* refreshed account, the new access token and expiry, the rotated refresh token
\* if the provider gave one and the old one otherwise, and the same active flag;
\* every other row, and the number of rows, is unchanged.
RefreshStoresNewTokens ==
  [][\A r \in Calls :
       (/\ req[r].pc \in {"busyRefresh", "eventRefresh"}
        /\ req'[r].pc \notin {"busyRefresh", "eventRefresh"}
        /\ issued' > issued)
         => /\ Cardinality(accounts') = Cardinality(accounts)
            /\ \A a \in accounts :
                 IF a.email = req[r].account
                 THEN \E b \in accounts' :
                        /\ b.id = a.id /\ b.email = a.email
                        /\ b.isActive = a.isActive
                        /\ b.accessToken = issued + 1
                        /\ b.tokenExpiry = now * SecondsPerMinute + TokenLifetimeSeconds
                        /\ b.refreshToken = IF issued' = issued + 2
                                            THEN issued + 2 ELSE a.refreshToken
                 ELSE a \in accounts']_vars

\* C13 witness: next to an untouched row, a row holds an access token issued by
\* a refresh together with the refresh token it had before.
RefreshedWithoutRotation ==
  \E a, b \in accounts :
    /\ a.email # b.email
    /\ a.accessToken >= 1 /\ a.refreshToken < 0
    /\ b.accessToken < 0

\* generateTimeSlots was the last function called on its own.
Generated == trial.fn = "generateTimeSlots"

SlotIndexes == 1 .. Len(trial.slots)

\* C14: every slot generateTimeSlots returns lasts exactly the configured
\* duration, no two returned slots overlap, and every returned slot starts at
\* or after the clock plus one hour.
SlotsWellFormed ==
  Generated =>
    /\ \A i \in SlotIndexes :
         /\ trial.slots[i].endTime - trial.slots[i].startTime
              = trial.config.appointmentDuration
         /\ trial.slots[i].startTime >= trial.clock + 60
    /\ \A i, j \in SlotIndexes :
         i # j => ~ (/\ trial.slots[i].startTime < trial.slots[j].endTime
                     /\ trial.slots[i].endTime > trial.slots[j].startTime)

\* C14 witness: at 09:30 the 10:00 slot, less than an hour away, is left out and
\* the list starts at 11:00.
LeadTimeCutsFirstSlots ==
  /\ Generated /\ trial.config = DefaultConfig /\ trial.busyPeriods = {}
  /\ trial.clock = 570
  /\ Len(trial.slots) >= 2
  /\ trial.slots[1].startTime = 660

\* C15: no returned slot S and busy period B passed to generateTimeSlots have
\* S.start < B.end and S.end > B.start.
NoSlotOverlapsBusy ==
  Generated =>
    \A i \in SlotIndexes : \A busy \in trial.busyPeriods :
      ~ (/\ trial.slots[i].startTime < busy.end
         /\ trial.slots[i].endTime > busy.start)

\* C15 witness: the busy period 10:30-11:15 took the 10:00 and the 11:00 slot,
\* the list goes from 09:00 to 12:00.
BusyAcrossTwoSlots ==
  /\ Generated /\ trial.config = DefaultConfig
  /\ trial.busyPeriods = {[start |-> 630, end |-> 675]}
  /\ Len(trial.slots) >= 2
  /\ trial.slots[1].startTime = 540
  /\ trial.slots[2].startTime = 720

\* The day of the range is a single business day wholly after the lead time,
\* under the default configuration.
OneOpenDay ==
  /\ Generated /\ trial.config = DefaultConfig
  /\ DayOf(trial.startDate) = DayOf(trial.endDate)
  /\ Weekday(DayOf(trial.startDate)) \in businessDays
  /\ trial.clock + 60 <= startOfDay(trial.startDate) + 540

\* The slot of the hour from h:00 on the day of the range.
HourSlot(h) ==
  [startTime |-> startOfDay(trial.startDate) + 60 * h,
   endTime |-> startOfDay(trial.startDate) + 60 * h + 60]

\* C16: the returned slots are in chronological order, on configured business
\* days, inside the business hours and on the grid open + k * duration (so a
\* window before closing shorter than the duration holds no slot); one open day
\* without busy periods gives exactly the 8 slots 09:00-10:00 ... 16:00-17:00.
SlotsOnTheGridInOrder ==
  Generated =>
    /\ \A i, j \in SlotIndexes :
         i < j => trial.slots[i].startTime < trial.slots[j].startTime
    /\ \A i \in SlotIndexes :
         LET slot == trial.slots[i]
             midnight == startOfDay(slot.startTime)
         IN /\ Weekday(DayOf(slot.startTime)) \in trial.config.businessDays
            /\ slot.startTime >= midnight + trial.config.businessHoursStart
            /\ slot.endTime <= midnight + trial.config.businessHoursEnd
            /\ (slot.startTime - midnight - trial.config.businessHoursStart)
                 % trial.config.appointmentDuration = 0
    /\ (OneOpenDay /\ trial.busyPeriods = {})
         => trial.slots = [k \in 1 .. 8 |-> HourSlot(8 + k)]

\* C16 witness: the 8 slots of an open day, and nothing after 16:00-17:00.
EightSlotsOfAnOpenDay ==
  /\ OneOpenDay /\ trial.busyPeriods = {}
  /\ Len(trial.slots) = 8
  /\ trial.slots[8] = HourSlot(16)

\* The candidate starting at minute start of the day that begins at midnight is
\* one that generateTimeSlots may return: on the grid, inside the hours, on a
\* business day of the range, an hour or more ahead and overlapping no busy
\* period.
Offered(midnight, start) ==
  LET end == start + trial.config.appointmentDuration
  IN /\ midnight >= startOfDay(trial.startDate)
     /\ midnight <= startOfDay(trial.endDate)
     /\ Weekday(DayOf(midnight)) \in trial.config.businessDays
     /\ start >= midnight + trial.config.businessHoursStart
     /\ end <= midnight + trial.config.businessHoursEnd
     /\ (start - midnight - trial.config.businessHoursStart)
          % trial.config.appointmentDuration = 0
     /\ start >= trial.clock + 60
     /\ \A busy \in trial.busyPeriods : ~ (start < busy.end /\ end > busy.start)

\* C17: a busy period removes only the slots it overlaps: every candidate that
\* keeps the lead time and overlaps no busy period is returned; the busy period
\* 10:00-11:00 on an open day leaves the seven other slots.
OnlyOverlappedSlotsRemoved ==
  Generated =>
    /\ \A day \in DayOf(trial.startDate) .. DayOf(trial.endDate) :
         \A minute \in 0 .. (MinutesPerDay - 1) :
           Offered(day * MinutesPerDay, day * MinutesPerDay + minute)
             => \E i \in SlotIndexes :
                  trial.slots[i].startTime = day * MinutesPerDay + minute
    /\ (OneOpenDay /\ trial.busyPeriods = {[start |-> 600, end |-> 660]})
         => trial.slots = [k \in 1 .. 7 |-> IF k = 1 THEN HourSlot(9)
                                             ELSE HourSlot(9 + k)]

\* C17 witness: with 10:00-11:00 busy the slots 09:00-10:00 and 11:00-12:00,
\* which touch the busy period, are the first two returned.
TouchingSlotsKept ==
  /\ OneOpenDay /\ trial.busyPeriods = {[start |-> 600, end |-> 660]}
  /\ Len(trial.slots) = 7
  /\ trial.slots[1] = HourSlot(9)
  /\ trial.slots[2] = HourSlot(11)

\* C18 as stated: filterByDate and filterByTimeOfDay, applied to a list that is
\* not empty, return a list that is not empty.
FilterNeverEmpties ==
  (trial.fn \in {"filterByDate", "filterByTimeOfDay"} /\ Len(trial.given) > 0)
    => Len(trial.slots) > 0

\* The list getAvailableSlots has after its date filter, computed from the
\* generated list: the slots of the preferred date if there are any.
AfterDateFilter ==
  IF trial.dateStr # NoDate
     /\ Len(filterByDate(trial.given, trial.dateStr, systemZone)) > 0
  THEN filterByDate(trial.given, trial.dateStr, systemZone)
  ELSE trial.given

\* C18: in getAvailableSlots a filter that would remove every slot is skipped:
\* when generateTimeSlots returned slots the result holds slots; the date filter
\* is applied only if slots of that date exist, then the time-of-day filter only
\* if slots of that time of day exist, and otherwise the list is kept unchanged.
FiltersSkippedWhenTheyWouldEmpty ==
  trial.fn = "getAvailableSlots" =>
    LET timed == filterByTimeOfDay(AfterDateFilter, trial.timeOfDay, systemZone)
        kept == IF Len(timed) > 0 THEN timed ELSE AfterDateFilter
    IN /\ Len(trial.given) > 0 => (trial.totalAvailable > 0 /\ Len(trial.slots) > 0)
       /\ trial.totalAvailable = Len(kept)
       /\ trial.slots = SubSeq(kept, 1, Min(5, Len(kept)))

\* C18 witness: no generated slot satisfied the time-of-day preference and the
\* list before that filter was returned.
TimeOfDayFilterSkipped ==
  /\ trial.fn = "getAvailableSlots"
  /\ Len(trial.given) > 0
  /\ trial.timeOfDay # "any"
  /\ Len(filterByTimeOfDay(AfterDateFilter, trial.timeOfDay, systemZone)) = 0
  /\ trial.totalAvailable = Len(AfterDateFilter)

\* parseNaturalDate was the last function called on its own.
Resolved == trial.fn = "parseNaturalDate"

TargetDay == CHOOSE w \in trial.phrase.weekdays : \A v \in trial.phrase.weekdays : w <= v

\* C20: for a phrase with a weekday name the search ends and the date falls on
\* that weekday strictly after the reference date: 1 to 7 days after it without
\* "next" (7 when the reference date is that weekday), a week more with "next".
WeekdayResolvesStrictlyAfter ==
  (Resolved /\ trial.phrase.weekdays # {}) =>
    LET today == DayOf(trial.clock)
        first == IF trial.phrase.hasNext THEN trial.date - 7 ELSE trial.date
    IN /\ trial.date # Diverged
       /\ trial.date > today
       /\ Weekday(trial.date) = TargetDay
       /\ Weekday(trial.date) \in trial.phrase.weekdays
       /\ first - today \in 1 .. 7
       /\ (Weekday(today) = TargetDay) => (first = today + 7)

\* C20 witness: on a Monday "next monday" gave the Monday two weeks ahead.
NextMondayOnAMonday ==
  /\ Resolved
  /\ trial.phrase = Phrase("", {1}, TRUE, NoDate)
  /\ Weekday(DayOf(trial.clock)) = 1
  /\ trial.date = DayOf(trial.clock) + 14

\* Whether the hour of minute t on the business wall clock lies in the range
\* named by timeOfDay.
InTimeOfDay(t, timeOfDay) ==
  LET hour == (t % MinutesPerDay) \div 60
  IN CASE timeOfDay = "morning" -> hour >= 6 /\ hour < 12
       [] timeOfDay = "afternoon" -> hour >= 12 /\ hour < 17
       [] timeOfDay = "evening" -> hour >= 17 /\ hour < 21
       [] OTHER -> TRUE

\* C21: filterByTimeOfDay keeps exactly the slots whose start hour in the
\* business timezone is in [6,12) for morning, [12,17) for afternoon, [17,21)
\* for evening, and returns the list unchanged for any.
TimeOfDayKeepsBusinessHours ==
  trial.fn = "filterByTimeOfDay" =>
    LET keep(slot) == InTimeOfDay(slot.startTime, trial.timeOfDay)
    IN trial.slots = SelectSeq(trial.given, keep)

\* The list getAvailableSlots has after both of its filters, computed from the
\* generated list.
AfterFilters ==
  LET timed == filterByTimeOfDay(AfterDateFilter, trial.timeOfDay, systemZone)
  IN IF Len(timed) > 0 THEN timed ELSE AfterDateFilter

\* C22: a successful getAvailableSlots result holds at most 5 slots, they are
\* the first of the filtered list in chronological order, and totalAvailable is
\* the length of that list before the cut, so it is at least the number of
\* slots returned.
AtMostFiveFirstSlots ==
  trial.fn = "getAvailableSlots" =>
    /\ Len(trial.slots) <= 5
    /\ Len(trial.slots) <= Len(AfterFilters)
    /\ \A i \in 1 .. Len(trial.slots) : trial.slots[i] = AfterFilters[i]
    /\ \A i, j \in 1 .. Len(trial.slots) :
         i < j => trial.slots[i].startTime < trial.slots[j].startTime
    /\ Len(AfterFilters) >= 5 => Len(trial.slots) = 5
    /\ Len(AfterFilters) < 5 => Len(trial.slots) = Len(AfterFilters)
    /\ trial.totalAvailable = Len(AfterFilters)
    /\ trial.totalAvailable >= Len(trial.slots)

\* C22 witness: more than 5 slots passed the filters and 5 were returned.
FiveOfMoreReturned ==
  /\ trial.fn = "getAvailableSlots"
  /\ trial.totalAvailable > 5
  /\ Len(trial.slots) = 5

\* C23: removeAccount(id) for a stored id has the provider revoke the token
\* before it deletes the row, and the row is deleted whether the revocation
\* succeeded or failed: a row leaves the store only in the step that ends an
\* awaited revocation, and when removeAccount ends, with either outcome, the
\* account is not in the store.
RemovedWhateverRevocation ==
  [][/\ \A a \in accounts :
          getAccountById(accounts', a.id) = {} =>
            (a.id \in removing /\ a.id \notin removing')
     /\ \A id \in removing :
          id \notin removing' => getAccountById(accounts', id) = {}]_vars

\* C23 witness: the one account that was connected has been removed.
ConnectedAccountRemoved ==
  /\ nextAccountId = 2
  /\ accounts = {}
  /\ removing = {}

ActiveIds(rows) == {a.id : a \in ActiveRows(rows)}

\* C24: setActiveAccount(id) that switches the active account from another
\* account to a stored id is one transition of the store, from a state with
\* that other account active to a state with only id active: a request running
\* concurrently finds exactly one active account before it and after it, and
\* there is no state between.
SwitchIsOneTransition ==
  [][\A id \in 1 .. nextAccountId :
       (/\ activateAccount(id)
        /\ getAccountById(accounts, id) # {}
        /\ Cardinality(ActiveRows(accounts)) = 1
        /\ id \notin ActiveIds(accounts))
         => /\ ActiveIds(accounts') = {id}
            /\ req' = req]_vars

\* C24 witness: a booking that read b@x as the active account awaits the
\* provider while a@x has been made the only active account.
SwitchedDuringBooking ==
  \E r \in Calls, a, b \in accounts :
    /\ req[r].pc \in {"freebusy", "insert"}
    /\ req[r].activeAccount = b.email
    /\ ~ b.isActive
    /\ a.id = activated
    /\ ActiveIds(accounts) = {a.id}

\* The calls that await refreshAccessToken() for the account of email.
Refreshing(email) ==
  {r \in Calls : req[r].pc \in {"busyRefresh", "eventRefresh"} /\ req[r].account = email}

\* C25: refreshes of one account are serialized: at no time is more than one
\* refresh call to the provider in flight for the same account.
RefreshesSerialized ==
  \A email \in Emails : Cardinality(Refreshing(email)) <= 1

\* C26: appointment records are added only by a bookAppointment call that
\* returns success: every step that changes the appointments adds exactly one
\* row and keeps the others, and it is the step in which a bookAppointment call
\* ends with success and the id of that row; no getAvailableSlots call, failed
\* booking, refresh, activation or removal changes them.
OnlySuccessfulBookingAddsAppointment ==
  [][appointments' # appointments =>
       /\ appointments \subseteq appointments'
       /\ Cardinality(appointments') = Cardinality(appointments) + 1
       /\ \E r \in Calls :
            /\ req[r].fn = "bookAppointment"
            /\ req[r].pc # "done"
            /\ req'[r].pc = "done"
            /\ req'[r].response.result.success
            /\ \A row \in appointments' \ appointments :
                 /\ row.callId = r
                 /\ row.id = req'[r].response.result.appointmentId]_vars

\* C26 witness: a record exists after an account was removed and a booking
\* succeeded.
AppointmentOutlivesAccount ==
  \E row \in appointments :
    /\ getAccountByEmail(accounts, row.accountEmail) = {}
    /\ req[row.callId].response.result.success

\* C27: a booking whose re-validation query was answered creates its event in
\* the calendar that was re-validated, even if the active account is switched
\* before createEvent, and the record it persists names the account whose
\* calendar holds the event.
EventInRevalidatedCalendar ==
  \A r \in Calls :
    (Booking(r) /\ req[r].answered /\ req[r].created # 0) =>
      /\ EventOf(r).calendar = req[r].queried
      /\ \A row \in RowsOfCall(r) : row.accountEmail = EventOf(r).calendar

\* Whether generateTimeSlots offers the interval [start, end), in minutes, when
\* called at clock with nothing busy.
Offerable(start, end, clock) ==
  \E i \in 1 .. SlotsPerDay :
    /\ CandidateSlot(DayOf(start), i) = [startTime |-> start, endTime |-> end]
    /\ Weekday(DayOf(start)) \in businessDays
    /\ inTheFuture(CandidateSlot(DayOf(start), i), clock)

\* C28: every appointment bookAppointment persists has an interval that
\* generateTimeSlots could have offered when it was booked: on a business day,
\* inside business hours on the slot grid, starting at least one hour later.
PersistedIntervalIsOfferable ==
  [][\A row \in appointments' \ appointments :
       Offerable(row.startTime \div SecondsPerMinute,
                 row.endTime \div SecondsPerMinute, now)]_vars

UnknownIdChangesNoFlag ==
  [][\A id \in 1 .. nextAccountId :
       (activateAccount(id) /\ getAccountById(accounts, id) = {})
         => /\ activated' = NoId
            /\ ActiveRows(accounts') = ActiveRows(accounts)]_vars

====
